---- MODULE Spec2Model ----
(***************************************************************************)
(* Model of culture-scanner: the /api/markets handler (normalise, score,    *)
(* rank) and the dashboard's SWR refresh loop with its prevData score map.  *)
(*                                                                          *)
(* JavaScript values are records of one shape, so that any two of them can  *)
(* be compared:                                                             *)
(*   [t |-> "undef" | "null" | "num" | "inf" | "nan" | "str", n, s]         *)
(* "num" carries the integer n, "inf" carries the sign n \in {-1, 1},       *)
(* "str" carries the string s as a sequence of one-character strings.       *)
(* Finite numbers of the model are integers: the strings the model feeds    *)
(* to parseFloat hold no "." and no exponent.                               *)
(***************************************************************************)
EXTENDS Integers, Sequences, FiniteSets

\* ------------------------------------------------------------------------
\* Bounds of the model
\* ------------------------------------------------------------------------
MaxMarkets == 2
MaxRetry == 1
MaxStamp == 2
MaxPrices == 2

\* ------------------------------------------------------------------------
\* JavaScript values
\* ------------------------------------------------------------------------
Undef == [t |-> "undef", n |-> 0, s |-> <<>>]
Null == [t |-> "null", n |-> 0, s |-> <<>>]
NaN == [t |-> "nan", n |-> 0, s |-> <<>>]
Num(i) == [t |-> "num", n |-> i, s |-> <<>>]
Inf(sign) == [t |-> "inf", n |-> sign, s |-> <<>>]
Str(chars) == [t |-> "str", n |-> 0, s |-> chars]

IsNumber(v) == v.t \in {"num", "inf", "nan"}
IsNullish(v) == v.t \in {"undef", "null"}

Digits == <<"0", "1", "2", "3", "4", "5", "6", "7", "8", "9">>
IsDigit(c) == \E i \in 1..10 : Digits[i] = c
DigitVal(c) == (CHOOSE i \in 1..10 : Digits[i] = c) - 1
IsSpace(c) == c = " "
InfinityWord == <<"I", "n", "f", "i", "n", "i", "t", "y">>

\* a ?? b
Coalesce(a, b) == IF IsNullish(a) THEN b ELSE a

\* String(v) for the values parseFloat and parseInt are handed
RECURSIVE NatToString(_)
NatToString(i) ==
  IF i < 10 THEN <<Digits[i + 1]>>
  ELSE NatToString(i \div 10) \o <<Digits[(i % 10) + 1]>>

JsString(v) ==
  CASE v.t = "str" -> v.s
    [] v.t = "num" -> IF v.n < 0 THEN <<"-">> \o NatToString(-v.n) ELSE NatToString(v.n)
    [] v.t = "inf" -> IF v.n < 0 THEN <<"-">> \o InfinityWord ELSE InfinityWord
    [] v.t = "nan" -> <<"N", "a", "N">>
    [] v.t = "null" -> <<"n", "u", "l", "l">>
    [] OTHER -> <<"u", "n", "d", "e", "f", "i", "n", "e", "d">>

RECURSIVE SkipSpaces(_)
SkipSpaces(chars) ==
  IF chars # <<>> /\ IsSpace(Head(chars)) THEN SkipSpaces(Tail(chars)) ELSE chars

\* the longest prefix of digits of chars
RECURSIVE DigitPrefix(_)
DigitPrefix(chars) ==
  IF chars # <<>> /\ IsDigit(Head(chars))
    THEN <<Head(chars)>> \o DigitPrefix(Tail(chars))
    ELSE <<>>

RECURSIVE DigitsValue(_, _)
DigitsValue(chars, acc) ==
  IF chars = <<>> THEN acc
  ELSE DigitsValue(Tail(chars), 10 * acc + DigitVal(Head(chars)))

IsPrefix(p, chars) == Len(p) <= Len(chars) /\ SubSeq(chars, 1, Len(p)) = p

\* parseFloat(value): leading white space, an optional sign, then Infinity or
\* the longest run of digits; anything else is NaN.  Trailing text is ignored.
ParseFloat(v) ==
  LET trimmed == SkipSpaces(JsString(v))
      signed == trimmed # <<>> /\ Head(trimmed) \in {"-", "+"}
      sign == IF trimmed # <<>> /\ Head(trimmed) = "-" THEN -1 ELSE 1
      rest == IF signed THEN Tail(trimmed) ELSE trimmed
      ds == DigitPrefix(rest)
  IN  IF IsPrefix(InfinityWord, rest) THEN Inf(sign)
      ELSE IF ds = <<>> THEN NaN
      ELSE Num(sign * DigitsValue(ds, 0))

\* parseInt(value, 10): as parseFloat, but Infinity is not a number for it
ParseInt(v) ==
  LET trimmed == SkipSpaces(JsString(v))
      signed == trimmed # <<>> /\ Head(trimmed) \in {"-", "+"}
      sign == IF trimmed # <<>> /\ Head(trimmed) = "-" THEN -1 ELSE 1
      rest == IF signed THEN Tail(trimmed) ELSE trimmed
      ds == DigitPrefix(rest)
  IN  IF ds = <<>> THEN NaN ELSE Num(sign * DigitsValue(ds, 0))

\* Helper to parse numeric strings safely
toNumber(value) ==
  LET num == ParseFloat(value)
  IN  IF num.t = "nan" THEN Num(0) ELSE num

\* Math.abs
Abs(x) ==
  CASE x.t = "num" -> Num(IF x.n < 0 THEN -x.n ELSE x.n)
    [] x.t = "inf" -> Inf(1)
    [] OTHER -> NaN

SignOf(x) == IF x.n < 0 THEN -1 ELSE IF x.n > 0 THEN 1 ELSE 0

\* x * y on numbers
Mul(x, y) ==
  CASE x.t = "nan" \/ y.t = "nan" -> NaN
    [] x.t = "num" /\ y.t = "num" -> Num(x.n * y.n)
    [] OTHER -> IF SignOf(x) * SignOf(y) = 0 THEN NaN ELSE Inf(SignOf(x) * SignOf(y))

\* x - y on numbers
Sub(x, y) ==
  CASE x.t = "nan" \/ y.t = "nan" -> NaN
    [] x.t = "num" /\ y.t = "num" -> Num(x.n - y.n)
    [] x.t = "inf" /\ y.t = "inf" -> IF x.n = y.n THEN NaN ELSE Inf(x.n)
    [] x.t = "inf" -> Inf(x.n)
    [] OTHER -> Inf(-y.n)

\* x > 0 on numbers (false for NaN)
IsPositive(x) == x.t \in {"num", "inf"} /\ x.n > 0

\* ------------------------------------------------------------------------
\* /api/markets: normalise, score, rank
\* ------------------------------------------------------------------------
\* An element of the upstream array.  isNull: the element is the JSON null.
\* Every other element is read by property access; a field that is absent
\* is Undef.  outcomePrices is [isArray, items].  id is a field of the
\* provider's records that the handler never reads.
NotArray == [isArray |-> FALSE, items |-> <<>>]
ArrayOf(items) == [isArray |-> TRUE, items |-> items]

RawMarket(slug, v24, v1w, vNum, dayChange, hourChange, prices) ==
  [isNull |-> FALSE, slug |-> slug, id |-> Undef, volume24hr |-> v24,
   volume1wk |-> v1w, volumeNum |-> vNum, oneDayPriceChange |-> dayChange,
   oneHourPriceChange |-> hourChange, outcomePrices |-> prices]

EmptyObject == RawMarket(Undef, Undef, Undef, Undef, Undef, Undef, NotArray)
NullElement == [EmptyObject EXCEPT !.isNull = TRUE]

\* array[i] of a JavaScript array (0-based): undefined past the end
At(items, i) == IF i + 1 <= Len(items) THEN items[i + 1] ELSE Undef

\* the fallback with the one-week field tried first
VolumeWeekFirst(m) ==
  toNumber(Coalesce(m.volume1wk, Coalesce(m.volume24hr, Coalesce(m.volumeNum, Num(0)))))

\* toNumber(m.volume24hr ?? m.volume1wk ?? m.volumeNum ?? 0)
Volume(m) ==
  toNumber(Coalesce(m.volume24hr, Coalesce(m.volume1wk, Coalesce(m.volumeNum, Num(0)))))

\* Math.abs(toNumber(m.oneDayPriceChange ?? m.oneHourPriceChange ?? 0))
PriceChange(m) ==
  Abs(toNumber(Coalesce(m.oneDayPriceChange, Coalesce(m.oneHourPriceChange, Num(0)))))

\* Array.isArray(m.outcomePrices) ? m.outcomePrices.map(toNumber) : [0, 0]
OutcomePrices(m) ==
  IF m.outcomePrices.isArray
    THEN [i \in 1..Len(m.outcomePrices.items) |-> toNumber(m.outcomePrices.items[i])]
    ELSE <<Num(0), Num(0)>>

\* a score that leaves the price weight out
AttentionVolumeWeightOnly(volume, priceChange, volumeWeight, priceWeight) ==
  Mul(Mul(volume, volumeWeight), priceChange)

\* (volume * volumeWeight) * (priceChange * priceWeight)
Attention(volume, priceChange, volumeWeight, priceWeight) ==
  Mul(Mul(volume, volumeWeight), Mul(priceChange, priceWeight))

\* the callback of markets.map: one processed record per element
Process(m, volumeWeight, priceWeight) ==
  LET volume == Volume(m)
      priceChange == PriceChange(m)
      prices == OutcomePrices(m)
  IN  [slug |-> m.slug,
       yesPrice |-> At(prices, 0),
       noPrice |-> At(prices, 1),
       volume |-> volume,
       priceChange |-> priceChange,
       attention |-> Attention(volume, priceChange, volumeWeight, priceWeight)]

\* processed.sort((a, b) => b.attention - a.attention): a stable sort; a
\* comparator result of NaN counts as 0
ComesBefore(a, b) == IsPositive(Sub(a.attention, b.attention))

RECURSIVE InsertSorted(_, _)
InsertSorted(sorted, x) ==
  IF sorted = <<>> THEN <<x>>
  ELSE IF ComesBefore(x, Head(sorted)) THEN <<x>> \o sorted
  ELSE <<Head(sorted)>> \o InsertSorted(Tail(sorted), x)

RECURSIVE SortByAttention(_)
SortByAttention(records) ==
  IF records = <<>> THEN <<>>
  ELSE InsertSorted(SortByAttention(SubSeq(records, 1, Len(records) - 1)),
                    records[Len(records)])

\* a slice that keeps every record
SliceAll(records, end) == records

\* array.slice(0, end)
Slice(records, end) ==
  LET k == CASE end.t = "nan" -> 0
             [] end.t = "inf" -> IF end.n > 0 THEN Len(records) ELSE 0
             [] end.n < 0 -> IF Len(records) + end.n < 0 THEN 0 ELSE Len(records) + end.n
             [] OTHER -> IF end.n > Len(records) THEN Len(records) ELSE end.n
  IN  SubSeq(records, 1, k)

\* a query parameter is a string or absent; '' is falsy
Truthy(v) == v.t = "str" /\ v.s # <<>>
DefaultLimit == 50
\* req.query: the handler reads volumeWeight, priceWeight and limit; a
\* request may carry other parameters (priceChangeWeight), which it ignores
NoQuery == [volumeWeight |-> Undef, priceWeight |-> Undef, limit |-> Undef,
            priceChangeWeight |-> Undef]

\* JSON.stringify / JSON.parse of a value: a number that is not finite
\* becomes null
JsonValue(v) == IF v.t \in {"inf", "nan"} THEN Null ELSE v

JsonRecord(r) == [f \in DOMAIN r |-> JsonValue(r[f])]

\* The bodies /api/markets answers with, as the client parses them
DataBody(records) == [def |-> TRUE, hasData |-> TRUE, data |-> records]
ErrorBody == [def |-> TRUE, hasData |-> FALSE, data |-> <<>>]

\* The provider's answer to the handler's fetch.  thrown: fetch rejects;
\* parsable: the body is JSON; isArray: the JSON is an array of items.
UpstreamThrows == [thrown |-> TRUE, status |-> 0, parsable |-> FALSE,
                   isArray |-> FALSE, items |-> <<>>]
UpstreamArray(status, items) == [thrown |-> FALSE, status |-> status, parsable |-> TRUE,
                                  isArray |-> TRUE, items |-> items]
UpstreamObject(status) == [thrown |-> FALSE, status |-> status, parsable |-> TRUE,
                           isArray |-> FALSE, items |-> <<>>]
UpstreamGarbage(status) == [thrown |-> FALSE, status |-> status, parsable |-> FALSE,
                            isArray |-> FALSE, items |-> <<>>]

\* what makes the try block throw: fetch rejects, response.json() rejects,
\* markets.map is not a function, or the callback reads a field of null
HandlerThrows(up) ==
  \/ up.thrown
  \/ ~up.parsable
  \/ ~up.isArray
  \/ \E i \in 1..Len(up.items) : up.items[i].isNull

\* export default async function handler(req, res)
Handler(up, query) ==
  IF HandlerThrows(up)
    THEN [status |-> 500, body |-> ErrorBody]
    ELSE
      LET volumeWeight == IF Truthy(query.volumeWeight)
                            THEN ParseFloat(query.volumeWeight) ELSE Num(1)
          priceWeight == IF Truthy(query.priceWeight)
                           THEN ParseFloat(query.priceWeight) ELSE Num(1)
          processed == [i \in 1..Len(up.items) |->
                          Process(up.items[i], volumeWeight, priceWeight)]
          limit == IF Truthy(query.limit) THEN ParseInt(query.limit) ELSE Num(DefaultLimit)
          top == Slice(SortByAttention(processed), limit)
      IN  [status |-> 200,
           body |-> DataBody([i \in 1..Len(top) |-> JsonRecord(top[i])])]

\* ------------------------------------------------------------------------
\* The dashboard: Home, its SWR refresh loop and MarketRow
\* ------------------------------------------------------------------------
VARIABLES
  mounted,       \* Home is mounted
  active,        \* SWR's isActive(): the page is visible and online
  swrData,       \* data of useSWR: NoData, or the body of the last resolved fetch
  swrError,      \* error of useSWR is set
  fetchState,    \* SWR's FETCH[key]: "none", "pending" or "settled" (kept for dedupe)
  inflight,      \* requests to /api/markets that are outstanding
  reqRetry,      \* opts.retryCount of the revalidation whose request is outstanding, else 0
  pollTimer,     \* refreshInterval timer: "armed", "waiting" (on revalidate), "off"
  retryTimers,   \* retry counts of the armed onErrorRetry timers
  prevData,      \* useState({}): slug -> attention
  lastUpdated,   \* useState(null): 0 is null, otherwise a time stamp
  effectPending, \* the [data] effect has not yet run for the committed render
  darkMode,
  email,
  lastGood,      \* history: the last snapshot a fetch delivered
  prevSnap,      \* history: the score map of the snapshot before lastGood
  lastCycle,     \* history: how the last finished refresh cycle ended
  request,       \* a request to /api/markets taken alone: [up, query]
  response       \* the handler's response to request, NoResponse before it ran

vars == <<mounted, active, swrData, swrError, fetchState, inflight, reqRetry,
          pollTimer, retryTimers, prevData, lastUpdated, effectPending,
          darkMode, email, lastGood, prevSnap, lastCycle, request, response>>

swrVars == <<swrData, swrError, fetchState, inflight, reqRetry, pollTimer, retryTimers>>
homeVars == <<prevData, lastUpdated, effectPending, darkMode, email>>
histVars == <<lastGood, prevSnap, lastCycle>>
handlerVars == <<request, response>>

NoData == [def |-> FALSE, hasData |-> FALSE, data |-> <<>>]
NoResponse == [status |-> 0, body |-> NoData]
NoRequest == [up |-> UpstreamThrows, query |-> NoQuery]

\* the property key a slug is used as: String(slug)
Key(slug) == JsString(slug)

\* a score map that keeps the entries prevData holds for other slugs
ScoreMapMerged(records) ==
  LET keys == {Key(records[i].slug) : i \in 1..Len(records)}
  IN  [k \in keys \cup DOMAIN prevData |->
         IF k \in keys
           THEN records[CHOOSE i \in 1..Len(records) :
                          /\ Key(records[i].slug) = k
                          /\ \A j \in (i + 1)..Len(records) : Key(records[j].slug) # k].attention
           ELSE prevData[k]]

\* const current = {}; data.data.forEach((m) => { current[m.slug] = m.attention; })
ScoreMapOf(records) ==
  [k \in {Key(records[i].slug) : i \in 1..Len(records)} |->
     LET last == CHOOSE i \in 1..Len(records) :
                   /\ Key(records[i].slug) = k
                   /\ \A j \in (i + 1)..Len(records) : Key(records[j].slug) # k
     IN  records[last].attention]

\* a lookup that finds no previous attention
PrevAttentionNone(map, market) == Null

\* prevData[market.slug] ?? null
PrevAttention(map, market) ==
  IF Key(market.slug) \in DOMAIN map
    THEN Coalesce(map[Key(market.slug)], Null)
    ELSE Null

\* Number(v) of an operand of the subtraction
ToNumeric(v) ==
  CASE IsNumber(v) -> v
    [] v.t = "null" -> Num(0)
    [] v.t = "str" -> ParseFloat(v)
    [] OTHER -> NaN

\* MarketRow: typeof prevAttention === 'number' ? attention - prevAttention : null
Delta(market, prevAttention) ==
  IF IsNumber(prevAttention)
    THEN Sub(ToNumeric(market.attention), prevAttention)
    ELSE Null

\* x >= 0 as JavaScript compares: null counts as 0, undefined and NaN fail
GreaterEqZero(v) ==
  LET x == ToNumeric(v) IN x.t \in {"num", "inf"} /\ x.n >= 0

\* MarketRow: const priceDir = priceChange >= 0 ? 'up' : 'down'
PriceDir(market) == IF GreaterEqZero(market.priceChange) THEN "up" ELSE "down"

\* m.field of a parsed record: undefined when the record has no such field
Field(m, name) == IF name \in DOMAIN m THEN m[name] ELSE Undef

\* m.volume * Math.abs(m.hourChange ?? 0)
HourScore(m) ==
  Mul(ToNumeric(m.volume), Abs(ToNumeric(Coalesce(Field(m, "hourChange"), Num(0)))))

\* scored.sort((a, b) => b.score - a.score): a stable sort
ScoreBefore(a, b) == IsPositive(Sub(a.score, b.score))

RECURSIVE InsertByScore(_, _)
InsertByScore(sorted, x) ==
  IF sorted = <<>> THEN <<x>>
  ELSE IF ScoreBefore(x, Head(sorted)) THEN <<x>> \o sorted
  ELSE <<Head(sorted)>> \o InsertByScore(Tail(sorted), x)

RECURSIVE SortByScore(_)
SortByScore(scored) ==
  IF scored = <<>> THEN <<>>
  ELSE InsertByScore(SortByScore(SubSeq(scored, 1, Len(scored) - 1)), scored[Len(scored)])

\* array.filter((x) => x.score > 0)
RECURSIVE FilterPositive(_)
FilterPositive(scored) ==
  IF scored = <<>> THEN <<>>
  ELSE IF IsPositive(Head(scored).score)
    THEN <<Head(scored)>> \o FilterPositive(Tail(scored))
    ELSE FilterPositive(Tail(scored))

TopCount == 3

\* TopHourMarkets: the list it renders, empty when it returns null
TopHourMarkets(markets) ==
  LET scored == [i \in 1..Len(markets) |-> [market |-> markets[i], score |-> HourScore(markets[i])]]
  IN  Slice(SortByScore(FilterPositive(scored)), Num(TopCount))

\* new Date(): a time stamp later than the one held
NextStamp(t) == (t % MaxStamp) + 1

\* what Home renders for the market list: nothing unless data && data.data
ListShown == swrData.def /\ swrData.hasData

Rows ==
  IF ListShown
    THEN [i \in 1..Len(swrData.data) |->
            [slug |-> swrData.data[i].slug,
             attention |-> swrData.data[i].attention,
             delta |-> Delta(swrData.data[i], PrevAttention(prevData, swrData.data[i]))]]
    ELSE <<>>

\* a guard that tests data alone, not data.data
EffectGuardDataOnly(data) == data.def

\* The [data] effect of Home: if (data && data.data)
EffectGuard(data) == data.def /\ data.hasData

\* ------------------------------------------------------------------------
\* Inputs
\* ------------------------------------------------------------------------
Market(slug, volume, change) ==
  RawMarket(Str(<<slug>>), Str(volume), Undef, Undef, Str(change), Undef, NotArray)

Elements ==
  {NullElement,
   Market("a", <<"1">>, <<"-", "1">>),
   Market("a", <<"3">>, <<"2">>),
   Market("b", <<"2">>, <<"1">>)}
Arrays == UNION {[1..n -> Elements] : n \in 0..MaxMarkets}
HttpOk == 200
HttpError == 500
Statuses == {HttpOk, HttpError}
UpstreamOutcomes ==
  {UpstreamThrows}
    \cup {UpstreamGarbage(st) : st \in Statuses}
    \cup {UpstreamObject(st) : st \in Statuses}
    \cup {UpstreamArray(st, items) : st \in Statuses, items \in Arrays}
\* One run of the handler for a request without query parameters:
\* its response, and whether the provider failed (threw, or answered with a
\* status that is not a success)
Answer(up) ==
  [res |-> Handler(up, NoQuery), upstreamFailed |-> up.thrown \/ up.status # HttpOk]
Answers == {Answer(up) : up \in UpstreamOutcomes}
Emails == {"", "you@example.com"}

\* ------------------------------------------------------------------------
\* Actions
\* ------------------------------------------------------------------------
\* Home has mounted: SWR has started the first request and armed the timer
HomeInit ==
  /\ mounted = TRUE
  /\ active = TRUE
  /\ swrData = NoData
  /\ swrError = FALSE
  /\ fetchState = "pending"
  /\ inflight = 1
  /\ reqRetry = 0
  /\ pollTimer = "armed"
  /\ retryTimers = {}
  /\ prevData = <<>>
  /\ lastUpdated = 0
  /\ effectPending = FALSE
  /\ darkMode = FALSE
  /\ email = ""
  /\ lastGood = [known |-> FALSE, data |-> <<>>]
  /\ prevSnap = [known |-> FALSE, scores |-> <<>>]
  /\ lastCycle = [outcome |-> "none", upstreamFailed |-> FALSE]

Init ==
  /\ HomeInit
  /\ request = NoRequest
  /\ response = NoResponse

\* a revalidation that starts a request whatever FETCH[key] holds
RevalidateNoDedupe(retryCount) ==
  /\ fetchState' = "pending"
  /\ inflight' = inflight + 1
  /\ reqRetry' = retryCount

\* SWR's revalidate({ dedupe: true, retryCount }): a request is started only
\* when FETCH[key] holds none
Revalidate(retryCount) ==
  IF fetchState = "none"
    THEN /\ fetchState' = "pending"
         /\ inflight' = inflight + 1
         /\ reqRetry' = retryCount
    ELSE UNCHANGED <<fetchState, inflight, reqRetry>>

\* the refreshInterval timer fires: execute()
PollTick ==
  /\ mounted /\ ~effectPending
  /\ pollTimer = "armed"
  /\ IF ~swrError /\ active
       THEN /\ Revalidate(0)
            /\ pollTimer' = IF fetchState = "settled" THEN "armed" ELSE "waiting"
       ELSE UNCHANGED <<fetchState, inflight, reqRetry, pollTimer>>
  /\ UNCHANGED <<mounted, active, swrData, swrError, retryTimers, homeVars,
                 lastGood, prevSnap, lastCycle>>
  /\ UNCHANGED handlerVars

\* a focus or reconnect event; SWR revalidates unless the event is throttled
Activate ==
  /\ mounted /\ ~effectPending
  /\ active' = TRUE
  /\ \/ Revalidate(0)
     \/ UNCHANGED <<fetchState, inflight, reqRetry>>
  /\ UNCHANGED <<mounted, swrData, swrError, pollTimer, retryTimers, homeVars,
                 lastGood, prevSnap, lastCycle>>
  /\ UNCHANGED handlerVars

\* the page is hidden or the browser goes offline
Deactivate ==
  /\ mounted /\ ~effectPending
  /\ active
  /\ active' = FALSE
  /\ UNCHANGED <<mounted, swrVars, homeVars, histVars>>
  /\ UNCHANGED handlerVars

\* an onErrorRetry timer fires
RetryTick(k) ==
  /\ mounted /\ ~effectPending
  /\ k \in retryTimers
  /\ retryTimers' = retryTimers \ {k}
  /\ Revalidate(k)
  /\ UNCHANGED <<mounted, active, swrData, swrError, pollTimer, homeVars,
                 lastGood, prevSnap, lastCycle>>
  /\ UNCHANGED handlerVars

\* the dedupingInterval after a resolved request ends: cleanupState
DedupeExpire ==
  /\ fetchState = "settled"
  /\ fetchState' = "none"
  /\ UNCHANGED <<mounted, active, swrData, swrError, inflight, reqRetry, pollTimer,
                 retryTimers, homeVars, histVars>>
  /\ UNCHANGED handlerVars

\* a revalidation that does not call next() when the request settles
RearmNever == IF pollTimer = "waiting" THEN "off" ELSE pollTimer

\* the revalidation that awaited the request calls next()
Rearm == IF pollTimer = "waiting" THEN "armed" ELSE pollTimer

\* The request is answered by a run of the handler: fetcher resolves with
\* the parsed body whatever the status, and SWR stores it (keeping the old
\* object when the new one is deeply equal).
FetchResolve(ans) ==
  /\ mounted /\ ~effectPending
  /\ inflight > 0
  /\ LET res == ans.res
         body == res.body
     IN  /\ swrData' = body
         /\ swrError' = FALSE
         /\ effectPending' = (body # swrData)
         /\ IF body.hasData
              THEN /\ lastGood' = [known |-> TRUE, data |-> body.data]
                   /\ prevSnap' = IF lastGood.known
                                    THEN [known |-> TRUE, scores |-> ScoreMapOf(lastGood.data)]
                                    ELSE prevSnap
              ELSE UNCHANGED <<lastGood, prevSnap>>
         /\ lastCycle' = [outcome |-> IF res.status = HttpOk THEN "ok" ELSE "error500",
                          upstreamFailed |-> ans.upstreamFailed]
  /\ fetchState' = "settled"
  /\ inflight' = inflight - 1
  /\ pollTimer' = Rearm
  /\ reqRetry' = 0
  /\ UNCHANGED <<mounted, active, retryTimers, prevData, lastUpdated,
                 darkMode, email>>
  /\ UNCHANGED handlerVars

\* The request fails on the client (the network fails, or the body is not
\* JSON): SWR keeps data, sets error and arms onErrorRetry when active.
FetchReject ==
  /\ mounted /\ ~effectPending
  /\ inflight > 0
  /\ swrError' = TRUE
  /\ fetchState' = "none"
  /\ inflight' = inflight - 1
  /\ pollTimer' = Rearm
  /\ retryTimers' = IF active
                      THEN retryTimers \cup {IF reqRetry < MaxRetry THEN reqRetry + 1 ELSE MaxRetry}
                      ELSE retryTimers
  /\ lastCycle' = [outcome |-> "rejected", upstreamFailed |-> FALSE]
  /\ reqRetry' = 0
  /\ UNCHANGED <<mounted, active, swrData, homeVars, lastGood, prevSnap>>
  /\ UNCHANGED handlerVars

\* useEffect(() => { if (data && data.data) { ... } }, [data])
RunEffect ==
  /\ mounted
  /\ effectPending
  /\ effectPending' = FALSE
  /\ IF EffectGuard(swrData)
       THEN /\ prevData' = ScoreMapOf(swrData.data)
            /\ lastUpdated' = NextStamp(lastUpdated)
       ELSE UNCHANGED <<prevData, lastUpdated>>
  /\ UNCHANGED <<mounted, active, swrVars, darkMode, email, histVars>>
  /\ UNCHANGED handlerVars

\* onClick={() => setDarkMode(!darkMode)}
ToggleDarkMode ==
  /\ mounted /\ ~effectPending
  /\ darkMode' = ~darkMode
  /\ UNCHANGED <<mounted, active, swrVars, prevData, lastUpdated, effectPending,
                 email, histVars>>
  /\ UNCHANGED handlerVars

\* onChange={(e) => setEmail(e.target.value)}
SetEmail(e) ==
  /\ mounted /\ ~effectPending
  /\ e # email
  /\ email' = e
  /\ UNCHANGED <<mounted, active, swrVars, prevData, lastUpdated, effectPending,
                 darkMode, histVars>>
  /\ UNCHANGED handlerVars

\* handleSubmit: the input is required, so the form submits a non-empty email
handleSubmit ==
  /\ mounted /\ ~effectPending
  /\ email # ""
  /\ email' = ""
  /\ UNCHANGED <<mounted, active, swrVars, prevData, lastUpdated, effectPending,
                 darkMode, histVars>>
  /\ UNCHANGED handlerVars

\* Home is torn down: SWR clears the refresh timer and drops its revalidator,
\* and the state of Home (and what it was given by useSWR) is gone
Unmount ==
  /\ mounted
  /\ mounted' = FALSE
  /\ pollTimer' = "off"
  /\ retryTimers' = {}
  /\ swrData' = NoData
  /\ swrError' = FALSE
  /\ prevData' = <<>>
  /\ lastUpdated' = 0
  /\ effectPending' = FALSE
  /\ darkMode' = FALSE
  /\ email' = ""
  /\ reqRetry' = 0
  /\ lastGood' = [known |-> FALSE, data |-> <<>>]
  /\ prevSnap' = [known |-> FALSE, scores |-> <<>>]
  /\ lastCycle' = [outcome |-> "none", upstreamFailed |-> FALSE]
  /\ UNCHANGED <<active, fetchState, inflight>>
  /\ UNCHANGED handlerVars

\* a request that outlives Home settles: nothing of Home is left to update
SettleUnmounted ==
  /\ ~mounted
  /\ inflight > 0
  /\ inflight' = inflight - 1
  /\ fetchState' = "none"
  /\ UNCHANGED <<mounted, active, swrData, swrError, reqRetry, pollTimer,
                 retryTimers, homeVars, histVars>>
  /\ UNCHANGED handlerVars

Next ==
  \/ PollTick
  \/ Activate
  \/ Deactivate
  \/ \E k \in 1..MaxRetry : RetryTick(k)
  \/ DedupeExpire
  \/ \E ans \in Answers : FetchResolve(ans)
  \/ FetchReject
  \/ RunEffect
  \/ ToggleDarkMode
  \/ \E e \in Emails : SetEmail(e)
  \/ handleSubmit
  \/ Unmount
  \/ SettleUnmounted

Spec == Init /\ [][Next]_vars

\* What the scheduling guarantees: an armed timer fires, an outstanding
\* request settles, a pending effect runs.  Nothing makes the user focus the
\* page, go online, toggle the theme or leave.
\* The refresh loop reads of an answer only whether it is the body SWR
\* already holds and whether it carries data, so under LiveSpec the answers
\* are one of each kind: the 500 body, an empty list, a list of one market.
LiveUpstreams ==
  {UpstreamThrows,
   UpstreamArray(HttpOk, <<>>),
   UpstreamArray(HttpOk, <<Market("a", <<"3">>, <<"2">>)>>)}
LiveAnswers == {Answer(up) : up \in LiveUpstreams}
LiveNext ==
  \/ PollTick
  \/ Activate
  \/ Deactivate
  \/ \E k \in 1..MaxRetry : RetryTick(k)
  \/ DedupeExpire
  \/ \E ans \in LiveAnswers : FetchResolve(ans)
  \/ FetchReject
  \/ RunEffect
  \/ ToggleDarkMode
  \/ \E e \in Emails : SetEmail(e)
  \/ handleSubmit
  \/ Unmount
  \/ SettleUnmounted
Settle == (\E ans \in LiveAnswers : FetchResolve(ans)) \/ FetchReject
Fairness ==
  /\ WF_vars(PollTick)
  /\ WF_vars(\E k \in 1..MaxRetry : RetryTick(k))
  /\ WF_vars(DedupeExpire)
  /\ WF_vars(Settle)
  /\ WF_vars(RunEffect)

LiveSpec == Init /\ [][LiveNext]_vars /\ Fairness

\* ------------------------------------------------------------------------
\* The handler taken alone (specification HandlerSpec): one request, drawn
\* from HandlerRequests or from QueryUpstreams and Queries, is answered
\* ------------------------------------------------------------------------
VolumeValues ==
  {Undef, Null, Num(0), Num(5), Num(-3), Inf(1),
   Str(<<"7">>), Str(<<"a", "b", "c">>), Str(<<" ", "4", "x">>)}
ChangeValues == {Undef, Num(2), Str(<<"-", "1">>), Str(<<"a", "b", "c">>), Str(<<"-">> \o InfinityWord)}
HourValues == {Undef, Num(-4), Str(<<"3">>)}
PriceValues == {Str(<<"1">>), Str(<<"-", "1">>), Str(<<"a", "b", "c">>)}
PriceArrays ==
  {NotArray} \cup {ArrayOf(items) : items \in UNION {[1..n -> PriceValues] : n \in 0..MaxPrices}}
RichElements ==
  {RawMarket(Str(<<"a">>), v24, v1w, vNum, day, hour, prices) :
     v24 \in VolumeValues, v1w \in VolumeValues, vNum \in {Undef, Str(<<"9">>)},
     day \in ChangeValues, hour \in HourValues, prices \in PriceArrays}
HandlerUpstreams ==
  UpstreamOutcomes \cup {UpstreamArray(HttpOk, <<m>>) : m \in RichElements}
\* Requests with query parameters, over arrays that hold a tie (a and c),
\* and a market whose attention is not finite (d: Infinity * 0)
RankElements ==
  {Market("a", <<"1">>, <<"-", "1">>),
   Market("b", <<"2">>, <<"1">>),
   Market("c", <<"1">>, <<"1">>),
   Market("d", InfinityWord, <<"0">>)}
RankArrays == UNION {[1..n -> RankElements] : n \in 0..MaxMarkets}
\* one more market than the default limit
LongArray ==
  [i \in 1..(DefaultLimit + 1) |->
     IF i = 1 THEN Market("a", <<"1">>, <<"-", "1">>) ELSE Market("b", <<"2">>, <<"1">>)]
QueryUpstreams ==
  {UpstreamArray(HttpOk, items) : items \in RankArrays \cup {LongArray}}
VolumeWeights == {Undef, Str(<<"2">>), Str(<<"a", "b", "c">>), Str(<<"-", "1">>)}
PriceWeights == {Undef, Str(<<"3">>), Str(<<"a", "b", "c">>)}
Limits ==
  {Undef, Str(<<>>), Str(<<"1">>), Str(<<"2">>), Str(<<"0">>), Str(<<"-", "1">>),
   Str(<<"a", "b", "c">>)}
Queries ==
  {[volumeWeight |-> vw, priceWeight |-> pw, limit |-> l, priceChangeWeight |-> pcw] :
     vw \in VolumeWeights, pw \in PriceWeights, l \in Limits,
     pcw \in {Undef, Str(<<"2">>)}}
\* Records that carry an id and no slug, next to one that carries a slug
WithId(m, id) == [m EXCEPT !.id = id]
IdElements ==
  {WithId(RawMarket(Undef, Str(<<"2">>), Undef, Undef, Str(<<"1">>), Undef, NotArray),
          Str(<<"x">>)),
   WithId(RawMarket(Undef, Str(<<"3">>), Undef, Undef, Str(<<"1">>), Undef, NotArray),
          Str(<<"y">>)),
   Market("b", <<"2">>, <<"1">>)}
IdUpstreams ==
  {UpstreamArray(HttpOk, items) :
     items \in UNION {[1..n -> IdElements] : n \in 1..MaxMarkets}}
HandlerRequests ==
  {[up |-> up, query |-> NoQuery] : up \in HandlerUpstreams \cup IdUpstreams}

HandlerInit ==
  /\ HomeInit
  /\ \/ request \in HandlerRequests
     \/ \E up \in QueryUpstreams, q \in Queries : request = [up |-> up, query |-> q]
  /\ response = NoResponse

Handle ==
  /\ response = NoResponse
  /\ response' = Handler(request.up, request.query)
  /\ UNCHANGED <<mounted, active, swrVars, homeVars, histVars, request>>

HandlerNext == Handle

HandlerSpec == HandlerInit /\ [][HandlerNext]_vars

\* ------------------------------------------------------------------------
\* Claims about the dashboard (specification Spec)
\* ------------------------------------------------------------------------
Failed == {"rejected", "error500"}
KnownBefore(row) == prevSnap.known /\ Key(row.slug) \in DOMAIN prevSnap.scores

\* C1: whenever a snapshot is displayed, every market that was also in the
\* snapshot before it is shown with delta = its attention now minus its
\* attention in that previous snapshot.
C1_DeltaLaw ==
  ListShown =>
    \A i \in 1..Len(Rows) :
      KnownBefore(Rows[i]) =>
        Rows[i].delta = Sub(Rows[i].attention, prevSnap.scores[Key(Rows[i].slug)])

\* C2: whenever a snapshot is displayed, every market that was not in the
\* snapshot before it (every market of the first snapshot included) is
\* shown with delta = null, never with a number.
C2_UnknownDelta ==
  ListShown =>
    \A i \in 1..Len(Rows) : ~KnownBefore(Rows[i]) => Rows[i].delta = Null

\* C3: no step that leaves the last finished cycle a failed one (the fetch
\* rejected, or the handler answered its 500 body) changes prevData or
\* lastUpdated: not the step that ends the cycle, not the effect after it.
C3_FailureKeepsStore ==
  [][lastCycle'.outcome \in Failed =>
       prevData' = prevData /\ lastUpdated' = lastUpdated]_vars

\* C3 witness: a cycle ended with the 500 body after a successful one, the
\* effect has run for it, and the store still holds the earlier snapshot.
C3_Witness ==
  /\ lastCycle.outcome = "error500"
  /\ swrData = ErrorBody
  /\ ~effectPending
  /\ lastGood.known /\ lastGood.data # <<>>
  /\ prevData = ScoreMapOf(lastGood.data)
  /\ lastUpdated # 0

\* C4: after a cycle that the handler answered with 500, the market list of
\* the last successful snapshot is still rendered.
C4_PriorSnapshotShown ==
  (lastCycle.outcome = "error500" /\ lastGood.known) =>
    (ListShown /\ swrData.data = lastGood.data)

\* C5: after a cycle in which the provider threw or answered with a status
\* that is not a success, the error of useSWR is set and the cycle published
\* no ranked data.
C5_UpstreamErrorSignalled ==
  lastCycle.upstreamFailed => (swrError /\ lastCycle.outcome # "ok")

\* C6: at most one request to /api/markets is outstanding.
C6_NoOverlap == inflight <= 1

\* C6 witness: the refresh timer fired while the first request was still
\* outstanding, and its revalidation joined that request.
C6_Witness ==
  /\ mounted
  /\ lastCycle.outcome = "none"
  /\ pollTimer = "waiting"
  /\ inflight = 1

Idle ==
  /\ mounted /\ active
  /\ inflight = 0
  /\ swrError => retryTimers # {}

Answered == response # NoResponse
Emitted == response.body.data
NonNegative(v) == v.t = "num" /\ v.n >= 0

\* the provider answered with a JSON array
ArrayArrived == ~request.up.thrown /\ request.up.parsable /\ request.up.isArray

\* C8: every record the handler emits has yesPrice, noPrice, volume and
\* priceChange that are finite numbers >= 0.
C8_NumericRange ==
  Answered =>
    \A i \in 1..Len(Emitted) :
      /\ NonNegative(Emitted[i].yesPrice)
      /\ NonNegative(Emitted[i].noPrice)
      /\ NonNegative(Emitted[i].volume)
      /\ NonNegative(Emitted[i].priceChange)

\* C9: whenever the provider answers with an array, whatever its elements,
\* the handler answers 200 with one record per element (for a request
\* without query parameters and an array within the default limit).
C9_NeverFails ==
  (Answered /\ ArrayArrived /\ request.query = NoQuery
     /\ Len(request.up.items) <= DefaultLimit) =>
    (response.status = HttpOk /\ Len(Emitted) = Len(request.up.items))

\* the first of the three volume fields that parseFloat does not turn into
\* NaN, coerced; 0 when there is none
FirstCoercible(m) ==
  LET Coerces(v) == ParseFloat(v).t # "nan"
  IN  IF Coerces(m.volume24hr) THEN ParseFloat(m.volume24hr)
      ELSE IF Coerces(m.volume1wk) THEN ParseFloat(m.volume1wk)
      ELSE IF Coerces(m.volumeNum) THEN ParseFloat(m.volumeNum)
      ELSE Num(0)

\* the first of the three volume fields that is neither null nor undefined,
\* coerced by toNumber whether it parses or not; 0 when there is none
FirstPresent(m) ==
  LET Present(v) == v.t \notin {"undef", "null"}
      Coerced(v) == IF ParseFloat(v).t = "nan" THEN Num(0) ELSE ParseFloat(v)
  IN  IF Present(m.volume24hr) THEN Coerced(m.volume24hr)
      ELSE IF Present(m.volume1wk) THEN Coerced(m.volume1wk)
      ELSE IF Present(m.volumeNum) THEN Coerced(m.volumeNum)
      ELSE Num(0)

SingleMarket ==
  /\ ArrayArrived /\ Len(request.up.items) = 1
  /\ response.status = HttpOk /\ Len(response.body.data) = 1

\* C10 as claimed: the volume of the emitted record is the first field that
\* coerces successfully, so an unparsable volume24hr falls through to
\* volume1wk.
C10_FirstCoercibleWins ==
  (Answered /\ SingleMarket) =>
    Emitted[1].volume = JsonValue(FirstCoercible(request.up.items[1]))

\* C10 as amended: the volume of the emitted record is the first field that
\* is present (neither null nor undefined), coerced; a present field that
\* does not parse gives 0 and the later fields are not tried.
C10_FirstPresentWins ==
  (Answered /\ SingleMarket) =>
    Emitted[1].volume = JsonValue(FirstPresent(request.up.items[1]))

\* C10 witness: volume24hr is present but unparsable, volume1wk is a valid
\* positive number, and the emitted volume is 0.
C10_Witness ==
  /\ Answered /\ SingleMarket
  /\ request.up.items[1].volume24hr = Str(<<"a", "b", "c">>)
  /\ request.up.items[1].volume1wk = Str(<<"7">>)
  /\ Emitted[1].volume = Num(0)

\* the price-change field the handler selects, coerced, with its sign
SignedChange(m) ==
  toNumber(Coalesce(m.oneDayPriceChange, Coalesce(m.oneHourPriceChange, Num(0))))
IsNegative(x) == x.t \in {"num", "inf"} /\ x.n < 0

\* C11: the direction MarketRow computes from the emitted record is 'down'
\* when the selected price-change field of the raw record is negative and
\* 'up' when it is not.
C11_DirectionFollowsSign ==
  (Answered /\ SingleMarket) =>
    PriceDir(Emitted[1]) =
      IF IsNegative(SignedChange(request.up.items[1])) THEN "down" ELSE "up"

\* a weight parameter as the claims read it: absent is 1, a string of
\* digits is the number it spells
IsDigits(v) == v.t = "str" /\ v.s # <<>> /\ \A i \in 1..Len(v.s) : IsDigit(v.s[i])
IsPositiveWeight(v) == v = Undef \/ (IsDigits(v) /\ DigitsValue(v.s, 0) > 0)
WeightOf(v) == IF v = Undef THEN Num(1) ELSE Num(DigitsValue(v.s, 0))
Count(seq, x) == Cardinality({i \in 1..Len(seq) : seq[i] = x})
Scores(records) ==
  [i \in 1..Len(records) |-> [slug |-> records[i].slug, attention |-> records[i].attention]]
\* the request is answered 200 and nothing truncates its result
Untruncated ==
  /\ Answered /\ response.status = HttpOk
  /\ request.query.limit = Undef
  /\ Len(request.up.items) <= DefaultLimit
\* slug and attention of every upstream record, the attention being the one
\* computed with weights (1, 1) multiplied by w
ScaledScores(w) ==
  [i \in 1..Len(request.up.items) |->
     LET m == request.up.items[i]
     IN  [slug |-> m.slug,
          attention |-> JsonValue(Mul(Mul(Volume(m), PriceChange(m)), w))]]

\* C12: for positive weights wv and wp (1 when absent), every upstream
\* record is emitted with attention = its own volume * priceChange (the
\* attention under weights (1, 1)) multiplied by wv * wp, whatever the
\* other records of the array are.
C12_AttentionFormula ==
  (Untruncated /\ IsPositiveWeight(request.query.volumeWeight)
     /\ IsPositiveWeight(request.query.priceWeight)) =>
    LET w == Mul(WeightOf(request.query.volumeWeight), WeightOf(request.query.priceWeight))
    IN  /\ Len(Emitted) = Len(request.up.items)
        /\ \A i \in 1..Len(Emitted) :
              Count(Scores(Emitted), Scores(Emitted)[i])
                = Count(ScaledScores(w), Scores(Emitted)[i])

\* C12 witness: weights 2 and 3, two markets with attention 1 and 2 under
\* weights (1, 1), emitted with attention 12 and 6.
C12_Witness ==
  /\ Untruncated
  /\ request.query.volumeWeight = Str(<<"2">>)
  /\ request.query.priceWeight = Str(<<"3">>)
  /\ request.up.items = <<Market("a", <<"1">>, <<"-", "1">>), Market("b", <<"2">>, <<"1">>)>>
  /\ Len(Emitted) = 2
  /\ Emitted[1].attention = Num(12)
  /\ Emitted[2].attention = Num(6)

\* x >= y between two emitted attentions, as JavaScript compares them
AtLeast(x, y) == ~IsPositive(Sub(ToNumeric(y), ToNumeric(x)))
DistinctSlugs(items) ==
  \A i, j \in 1..Len(items) : i # j => items[i].slug # items[j].slug
\* where the record with this slug stands in the upstream array
PositionOf(slug) == CHOOSE i \in 1..Len(request.up.items) : request.up.items[i].slug = slug

\* C13: the emitted array is sorted non-increasing by attention, and
\* records of equal attention stand in the order their markets have in the
\* upstream array.
C13_RankedStable ==
  (Answered /\ response.status = HttpOk) =>
    \A i, j \in 1..Len(Emitted) :
      i < j =>
        /\ AtLeast(Emitted[i].attention, Emitted[j].attention)
        /\ (DistinctSlugs(request.up.items)
              /\ Emitted[i].attention = Emitted[j].attention) =>
             PositionOf(Emitted[i].slug) < PositionOf(Emitted[j].slug)

\* the limit as the claim reads it: 50 when absent, else the positive
\* integer the parameter spells
IsPositiveLimit(v) == v = Undef \/ (IsDigits(v) /\ DigitsValue(v.s, 0) > 0)
LimitOf(v) == IF v = Undef THEN DefaultLimit ELSE DigitsValue(v.s, 0)
Min(a, b) == IF a < b THEN a ELSE b
\* the ranked order of the whole array: the answer to the same request with
\* a limit of one more than the array holds
FullRanking ==
  Handler(request.up,
          [request.query EXCEPT !.limit = Str(NatToString(Len(request.up.items) + 1))]).body.data

\* C14: a request answered 200 whose limit is absent or a positive integer
\* L gets exactly min(L, n) records, the first min(L, n) of the ranked
\* order of the n upstream records.
C14_ResultLength ==
  (Answered /\ response.status = HttpOk /\ IsPositiveLimit(request.query.limit)) =>
    LET k == Min(LimitOf(request.query.limit), Len(request.up.items))
    IN  /\ Len(Emitted) = k
        /\ Emitted = SubSeq(FullRanking, 1, k)

\* C14 witness: limit 1 and two markets; the one of higher attention is
\* the only record returned.
C14_Witness ==
  /\ Answered /\ response.status = HttpOk
  /\ request.query.limit = Str(<<"1">>)
  /\ request.query.volumeWeight = Undef /\ request.query.priceWeight = Undef
  /\ request.up.items = <<Market("a", <<"1">>, <<"-", "1">>), Market("b", <<"2">>, <<"1">>)>>
  /\ Len(Emitted) = 1
  /\ Emitted[1].slug = Str(<<"b">>)

\* a parameter that is present and is not a positive number: not numeric,
\* or zero, or negative
IsInvalid(v) == v # Undef /\ ~(IsDigits(v) /\ DigitsValue(v.s, 0) > 0)
\* the query with every invalid parameter taken out
Defaulted(query) ==
  [f \in DOMAIN query |-> IF IsInvalid(query[f]) THEN Undef ELSE query[f]]

\* C15: a request whose volumeWeight, priceWeight or limit is not numeric or
\* out of domain gets the response the same request gets with that
\* parameter absent.
C15_InvalidCoerced ==
  Answered => response = Handler(request.up, Defaulted(request.query))

\* C16: a request that supplies priceChangeWeight = w, w positive, and no
\* other weight gets every record's attention multiplied by w relative to
\* the request without it.
C16_PriceChangeWeightScales ==
  (Untruncated /\ request.query.priceChangeWeight # Undef
     /\ IsPositiveWeight(request.query.priceChangeWeight)
     /\ request.query.volumeWeight = Undef /\ request.query.priceWeight = Undef) =>
    \A i \in 1..Len(Emitted) :
      Count(Scores(Emitted), Scores(Emitted)[i])
        = Count(ScaledScores(WeightOf(request.query.priceChangeWeight)), Scores(Emitted)[i])

\* ------------------------------------------------------------------------
\* More claims about the dashboard (specification Spec)
\* ------------------------------------------------------------------------
\* the snapshot on display repeats the scores of the snapshot before it,
\* and the effect has run for it
Replayed ==
  /\ ListShown /\ ~effectPending
  /\ lastCycle.outcome = "ok"
  /\ prevSnap.known
  /\ prevSnap.scores = ScoreMapOf(swrData.data)

C18_StoreReplaced ==
  (mounted /\ ~effectPending /\ lastGood.known) =>
    /\ DOMAIN prevData = {Key(lastGood.data[i].slug) : i \in 1..Len(lastGood.data)}
    /\ \A k \in DOMAIN prevData :
          \E i \in 1..Len(lastGood.data) :
            Key(lastGood.data[i].slug) = k /\ prevData[k] = lastGood.data[i].attention

\* C18 witness: the snapshot before held market b, the newest one does not,
\* and after the effect prevData has no entry for b.
C18_Witness ==
  /\ mounted /\ ~effectPending /\ lastGood.known
  /\ lastCycle.outcome = "ok"
  /\ prevSnap.known /\ <<"b">> \in DOMAIN prevSnap.scores
  /\ prevData # <<>>
  /\ <<"b">> \notin DOMAIN prevData

\* ------------------------------------------------------------------------
\* More claims about the handler (specification HandlerSpec)
\* ------------------------------------------------------------------------
IsCoercible(v) == ParseFloat(v).t # "nan"
\* outcomePrices is an array of two elements that both coerce
IsPricePair(prices) ==
  /\ prices.isArray /\ Len(prices.items) = 2
  /\ IsCoercible(prices.items[1]) /\ IsCoercible(prices.items[2])

\* C19: yesPrice and noPrice are the coerced first and second element when
\* outcomePrices is an array of two coercible elements, and both are 0 in
\* every other case.
C19_OutcomePriceRule ==
  (Answered /\ SingleMarket) =>
    LET prices == request.up.items[1].outcomePrices
    IN  IF IsPricePair(prices)
          THEN /\ Emitted[1].yesPrice = JsonValue(ParseFloat(prices.items[1]))
               /\ Emitted[1].noPrice = JsonValue(ParseFloat(prices.items[2]))
          ELSE /\ Emitted[1].yesPrice = Num(0)
               /\ Emitted[1].noPrice = Num(0)

\* the name fields of a raw record, in fallback order
NameOf(m) == Coalesce(m.slug, m.id)

\* C20: when every upstream record has a slug or an id, every emitted
\* record has a defined identifier, and the score map built from the
\* emitted records has one key per distinct identifier.
C20_IdentifierFallback ==
  (Untruncated /\ ArrayArrived
     /\ \A i \in 1..Len(request.up.items) : NameOf(request.up.items[i]) # Undef) =>
    /\ \A i \in 1..Len(Emitted) : Emitted[i].slug # Undef
    /\ Cardinality(DOMAIN ScoreMapOf(Emitted))
         = Cardinality({NameOf(request.up.items[i]) : i \in 1..Len(request.up.items)})

\* volume * |one-hour price change| of a raw record, as the handler coerces
\* its fields
RawHourScore(m) == Mul(Volume(m), Abs(toNumber(Coalesce(m.oneHourPriceChange, Num(0)))))
HourMovers == {i \in 1..Len(request.up.items) : IsPositive(RawHourScore(request.up.items[i]))}

\* C21: applied to the records the handler returned, TopHourMarkets shows
\* as many markets as have a positive score volume * |one-hour price
\* change|, up to three, in descending order of score; it shows nothing
\* only when no market has a positive score.
C21_TopHourMovers ==
  (Untruncated /\ ArrayArrived) =>
    LET top == TopHourMarkets(Emitted)
    IN  /\ Len(top) = Min(TopCount, Cardinality(HourMovers))
        /\ \A i, j \in 1..Len(top) : i < j => AtLeast(top[i].score, top[j].score)

====
